---- MODULE Spec2Model ----
(***************************************************************************)
(* The URL mapping store of the url_shortener service                      *)
(* (src/src/services/storage.py), the short-code generator                 *)
(* (src/src/core/utils.py) and the request handlers that drive them        *)
(* (src/src/api/routes.py).                                                *)
(*                                                                         *)
(* The handlers are `async def` coroutines that contain no `await`, so on  *)
(* the event loop each handler runs from its first line to its return      *)
(* without another handler running in between: one handler is one step.    *)
(* Concurrent requests are therefore exactly the behaviours in which their *)
(* handlers run one after the other, in any order, interleaved with any    *)
(* other handlers.                                                         *)
(***************************************************************************)
EXTENDS Integers, Sequences, FiniteSets, TLC

(***************************************************************************)
(* Bounds of the model.                                                    *)
(***************************************************************************)
\* the generation loop is followed up to this attempt number
MaxAttempt == 1
\* access counters are followed up to this value
MaxAccess == 2
\* bulk_delete is called with lists of at most this length
MaxBulk == 3
\* at most this many callers run increment_access on a code concurrently
MaxCallers == 2

(***************************************************************************)
(* Program constants and input domains.                                    *)
(***************************************************************************)
\* Settings.short_code_length
short_code_length == 6

\* Python's None, where a str is expected
None == "None"

\* the URLs requests carry (str(url_data.url))
URLs == {"https://a.io/", "https://b.io/"}

\* the values datetime.now().isoformat() takes
Times == {"2024-01-01T00:00:00", "2024-01-02T00:00:00"}

\* hashlib.md5(s.encode()).hexdigest(), tabulated for the strings the
\* generator is called with
hexdigest(s) ==
    CASE s = "https://a.io/"  -> "753dc6c40ceb4bf276a8f228121cc206"
      [] s = "https://a.io/1" -> "4fb691f55d5a954739c19e70354e6572"
      [] s = "https://a.io/2" -> "d66a85e50d812ec239cc1a0eb4c74c09"
      [] s = "https://a.io/3" -> "748bc1b2b7f3a156744b17b690a0fbec"
      [] s = "https://a.io/4" -> "af16fd74bb8bf60f1cb2340f58545c13"
      [] s = "https://b.io/"  -> "7a61037934e0a33a4a91d603f3dd4aeb"
      [] s = "https://b.io/1" -> "c195093ee4cfc7786763cd1b679bb2cf"
      [] s = "https://b.io/2" -> "ad8a689363ce310418fb62858fda020d"
      [] s = "https://b.io/3" -> "5bb2bd6bd14392e1d35301c722be76dd"
      [] s = "https://b.io/4" -> "153857ad6f6ebf30386b861d78369f21"

\* generate_short_code, were the slice one character longer
generate_short_code_longer(url, attempt) ==
    LET input_string == IF attempt > 0 THEN url \o ToString(attempt) ELSE url
    IN  SubSeq(hexdigest(input_string), 1, short_code_length + 1)

\* generate_short_code(url, attempt=0)
generate_short_code(url, attempt) ==
    LET input_string == IF attempt > 0 THEN url \o ToString(attempt) ELSE url
    IN  SubSeq(hexdigest(input_string), 1, short_code_length)

\* the shorten requests: (url, custom_code), custom_code None when not given.
\* "753dc6" is a custom code that is also the first candidate of https://a.io/
ShortenRequests ==
    { <<"https://a.io/", None>>,
      <<"https://a.io/", "753dc6">>,
      <<"https://b.io/", "753dc6">> }

\* the short codes a shorten request can create within the bounds
Codes ==
    {r[2] : r \in {q \in ShortenRequests : q[2] # None}}
    \cup {generate_short_code(r[1], k) :
             r \in {q \in ShortenRequests : q[2] = None}, k \in 0..MaxAttempt}

\* the short codes the other requests and calls name; "zzzzzz" is never created
OpCodes == Codes \cup {"zzzzzz"}

\* the update requests: (short_code, new_url), for a code that shorten requests
\* create with either url and for a code that is never created
UpdateRequests ==
    { <<"753dc6", "https://a.io/">>,
      <<"753dc6", "https://b.io/">>,
      <<"zzzzzz", "https://b.io/">> }

\* the lists bulk_delete is called with: empty, with absent codes, with a
\* code repeated, with codes that exist and codes that do not
BulkRequests ==
    { <<>>, <<"753dc6">>, <<"zzzzzz">>, <<"753dc6", "753dc6">>,
      <<"753dc6", "4fb691">>, <<"zzzzzz", "4fb691">>,
      <<"753dc6", "4fb691", "zzzzzz">>, <<"4fb691", "zzzzzz", "4fb691">>,
      <<"zzzzzz", "753dc6", "d66a85", "753dc6">> }

CodeLists == {l \in BulkRequests : Len(l) <= MaxBulk}

\* the direct calls of save: (short_code, original_url), on a code with either
\* url and on a second code
SaveRequests ==
    { <<"753dc6", "https://a.io/">>,
      <<"753dc6", "https://b.io/">>,
      <<"4fb691", "https://a.io/">> }

\* the search queries: empty, one that matches a url only when the case is
\* folded, one that matches a short code
SearchQueries == {"", "A.IO", "753"}

VARIABLES
    urls,           \* URLStorage._urls: short code -> original url
    access_counts,  \* URLStorage._access_counts: defaultdict(int)
    created_at,     \* URLStorage._created_at: short code -> isoformat string
    last,           \* the call or request that ran last, and what it returned
    issued,         \* history: short code -> number of shorten requests
                    \* answered 201 with it since the code was last absent
    purged,         \* history: the absent codes whose entry had been accessed
                    \* (access count > 0) when it was removed
    loop,           \* the shorten request whose handler is in its generation
                    \* loop, with the handler's local variables
    calls           \* the concurrent callers of increment_access on one code:
                    \* where each is in the call and the count it has read;
                    \* history: the count when they arrived and whether the
                    \* code was deleted since

vars == <<urls, access_counts, created_at, last, issued, purged, loop, calls>>

\* the store object, as the three dicts
Store == [urls |-> urls, access_counts |-> access_counts, created_at |-> created_at]

(***************************************************************************)
(* dict helpers                                                            *)
(***************************************************************************)
\* d[k] = v
DictSet(d, k, v) == [x \in DOMAIN d \cup {k} |-> IF x = k THEN v ELSE d[x]]

\* del d[k]
DictDel(d, k) == [x \in DOMAIN d \ {k} |-> d[x]]

\* d.get(k)
DictGet(d, k) == IF k \in DOMAIN d THEN d[k] ELSE None

\* the value defaultdict(int) yields for d[k]
DefaultGet(d, k) == IF k \in DOMAIN d THEN d[k] ELSE 0

\* the defaultdict after d[k] was read: a missing key is inserted with int()
DefaultTouch(d, k) == IF k \in DOMAIN d THEN d ELSE DictSet(d, k, 0)

\* {}
EmptyDict == [x \in {} |-> None]

(***************************************************************************)
(* URLStorage                                                              *)
(***************************************************************************)
\* URLStorage.__init__
StoreInit == [urls |-> EmptyDict, access_counts |-> EmptyDict, created_at |-> EmptyDict]

\* save, were a caller to see the store between its two assignments
save_without_created_at(st, short_code, original_url, now) ==
    [st EXCEPT !.urls = DictSet(st.urls, short_code, original_url)]

\* save, were it to start the counter of the code at 0
save_resets_counter(st, short_code, original_url, now) ==
    [st EXCEPT !.urls = DictSet(st.urls, short_code, original_url),
               !.access_counts = DictSet(st.access_counts, short_code, 0),
               !.created_at = DictSet(st.created_at, short_code, now)]

\* URLStorage.save
save(st, short_code, original_url, now) ==
    [st EXCEPT !.urls = DictSet(st.urls, short_code, original_url),
               !.created_at = DictSet(st.created_at, short_code, now)]

\* URLStorage.get
get(st, short_code) == DictGet(st.urls, short_code)

\* URLStorage.get_with_details: the returned dict ({} for None) and the store
\* after the call (reading the defaultdict inserts a missing key)
get_with_details(st, short_code) ==
    IF short_code \notin DOMAIN st.urls
    THEN [st |-> st, ret |-> {}]
    ELSE [st  |-> [st EXCEPT !.access_counts = DefaultTouch(st.access_counts, short_code)],
          ret |-> {[original_url |-> st.urls[short_code],
                    access_count |-> DefaultGet(st.access_counts, short_code),
                    created_at   |-> DictGet(st.created_at, short_code)]}]

\* increment_access, were it to store 1 instead of adding 1
increment_access_sets_one(st, short_code) ==
    IF short_code \in DOMAIN st.urls
    THEN [st EXCEPT !.access_counts = DictSet(st.access_counts, short_code, 1)]
    ELSE st

\* increment_access, were it to lack the test that the code is stored
increment_access_unguarded(st, short_code) ==
    [st EXCEPT !.access_counts =
         DictSet(st.access_counts, short_code,
                 DefaultGet(st.access_counts, short_code) + 1)]

\* URLStorage.increment_access
increment_access(st, short_code) ==
    IF short_code \in DOMAIN st.urls
    THEN [st EXCEPT !.access_counts =
              DictSet(st.access_counts, short_code,
                      DefaultGet(st.access_counts, short_code) + 1)]
    ELSE st

\* update, were it to drop the access counter of the entry
update_resets_counter(st, short_code, new_url) ==
    IF short_code \in DOMAIN st.urls
    THEN [st |-> [st EXCEPT !.urls = DictSet(st.urls, short_code, new_url),
                            !.access_counts = DictDel(st.access_counts, short_code)],
          ret |-> TRUE]
    ELSE [st |-> st, ret |-> FALSE]

\* update, were it to go through save, which stamps the entry again
update_through_save(st, short_code, new_url) ==
    IF short_code \in DOMAIN st.urls
    THEN [st |-> save(st, short_code, new_url,
                      CHOOSE t \in Times : t # st.created_at[short_code]),
          ret |-> TRUE]
    ELSE [st |-> st, ret |-> FALSE]

\* URLStorage.update
update(st, short_code, new_url) ==
    IF short_code \in DOMAIN st.urls
    THEN [st |-> [st EXCEPT !.urls = DictSet(st.urls, short_code, new_url)], ret |-> TRUE]
    ELSE [st |-> st, ret |-> FALSE]

\* exists, were it to miss every stored code
exists_never(st, short_code) == FALSE

\* URLStorage.exists
exists(st, short_code) == short_code \in DOMAIN st.urls

\* delete, were it to leave the access counter behind
delete_keeps_counter(st, short_code) ==
    IF short_code \in DOMAIN st.urls
    THEN [st  |-> [urls          |-> DictDel(st.urls, short_code),
                   access_counts |-> st.access_counts,
                   created_at    |-> DictDel(st.created_at, short_code)],
          ret |-> TRUE]
    ELSE [st |-> st, ret |-> FALSE]

\* delete, were it to leave the creation time behind
delete_keeps_created_at(st, short_code) ==
    IF short_code \in DOMAIN st.urls
    THEN [st  |-> [urls          |-> DictDel(st.urls, short_code),
                   access_counts |-> DictDel(st.access_counts, short_code),
                   created_at    |-> st.created_at],
          ret |-> TRUE]
    ELSE [st |-> st, ret |-> FALSE]

\* URLStorage.delete
delete(st, short_code) ==
    IF short_code \in DOMAIN st.urls
    THEN [st  |-> [urls          |-> DictDel(st.urls, short_code),
                   access_counts |-> IF short_code \in DOMAIN st.access_counts
                                     THEN DictDel(st.access_counts, short_code)
                                     ELSE st.access_counts,
                   created_at    |-> IF short_code \in DOMAIN st.created_at
                                     THEN DictDel(st.created_at, short_code)
                                     ELSE st.created_at],
          ret |-> TRUE]
    ELSE [st |-> st, ret |-> FALSE]

\* the loop of URLStorage.bulk_delete, from position i of short_codes
RECURSIVE bulk_delete_from(_, _, _, _, _)
bulk_delete_from(st, short_codes, i, deleted, failed) ==
    IF i > Len(short_codes)
    THEN [st |-> st, deleted |-> deleted, failed |-> failed]
    ELSE LET d == delete(st, short_codes[i])
         IN  IF d.ret
             THEN bulk_delete_from(d.st, short_codes, i + 1, deleted + 1, failed)
             ELSE bulk_delete_from(d.st, short_codes, i + 1, deleted,
                                   Append(failed, short_codes[i]))

\* the loop of bulk_delete, were it to return at the first code not found
RECURSIVE bulk_delete_until_failure(_, _, _, _)
bulk_delete_until_failure(st, short_codes, i, deleted) ==
    IF i > Len(short_codes)
    THEN [st |-> st, deleted |-> deleted, failed |-> <<>>]
    ELSE LET d == delete(st, short_codes[i])
         IN  IF d.ret
             THEN bulk_delete_until_failure(d.st, short_codes, i + 1, deleted + 1)
             ELSE [st |-> d.st, deleted |-> deleted, failed |-> <<short_codes[i]>>]

\* bulk_delete, were it to stop at the first code not found
bulk_delete_stops_at_failure(st, short_codes) ==
    bulk_delete_until_failure(st, short_codes, 1, 0)

\* bulk_delete, were `deleted += 1` to run for every code of the list
bulk_delete_counts_all(st, short_codes) ==
    [bulk_delete_from(st, short_codes, 1, 0, <<>>) EXCEPT !.deleted = Len(short_codes)]

\* URLStorage.bulk_delete
bulk_delete(st, short_codes) == bulk_delete_from(st, short_codes, 1, 0, <<>>)

\* str.lower() of one character
lower_char(ch) ==
    CASE ch = "A" -> "a"
      [] ch = "B" -> "b"
      [] ch = "C" -> "c"
      [] ch = "D" -> "d"
      [] ch = "E" -> "e"
      [] ch = "F" -> "f"
      [] ch = "G" -> "g"
      [] ch = "H" -> "h"
      [] ch = "I" -> "i"
      [] ch = "J" -> "j"
      [] ch = "K" -> "k"
      [] ch = "L" -> "l"
      [] ch = "M" -> "m"
      [] ch = "N" -> "n"
      [] ch = "O" -> "o"
      [] ch = "P" -> "p"
      [] ch = "Q" -> "q"
      [] ch = "R" -> "r"
      [] ch = "S" -> "s"
      [] ch = "T" -> "t"
      [] ch = "U" -> "u"
      [] ch = "V" -> "v"
      [] ch = "W" -> "w"
      [] ch = "X" -> "x"
      [] ch = "Y" -> "y"
      [] ch = "Z" -> "z"
      [] OTHER -> ch

\* str.lower()
RECURSIVE lower(_)
lower(s) ==
    IF Len(s) = 0 THEN ""
    ELSE lower_char(SubSeq(s, 1, 1)) \o lower(SubSeq(s, 2, Len(s)))

\* Python's `sub in s` on two str
str_in(sub, s) ==
    \E i \in 1..(Len(s) - Len(sub) + 1) : SubSeq(s, i, i + Len(sub) - 1) = sub

\* dict.items(): a dict yields its keys in insertion order. The three
\* functions of the store do not keep that order, so a dict is iterated in one
\* fixed order of its keys; only the order inside the returned lists depends
\* on it.
items_of(d) ==
    CHOOSE items \in [1..Cardinality(DOMAIN d) -> DOMAIN d] :
        \A c \in DOMAIN d : \E i \in DOMAIN items : items[i] = c

\* self._access_counts[code] for every code of a list: the missing keys are
\* inserted with 0
RECURSIVE DefaultTouchAll(_, _)
DefaultTouchAll(d, codes) ==
    IF codes = <<>> THEN d
    ELSE DefaultTouchAll(DefaultTouch(d, Head(codes)), Tail(codes))

\* URLStorage.get_all_with_stats
get_all_with_stats(st) ==
    LET items == items_of(st.urls)
    IN
    [st  |-> [st EXCEPT !.access_counts = DefaultTouchAll(@, items)],
     ret |-> [i \in DOMAIN items |->
                 [short_code   |-> items[i],
                  original_url |-> st.urls[items[i]],
                  access_count |-> DefaultGet(st.access_counts, items[i]),
                  created_at   |-> DictGet(st.created_at, items[i])]]]

\* lower() and `in`, tabulated for the queries, the short codes and the urls
\* of the model
lowered == [s \in SearchQueries \cup Codes \cup URLs |-> lower(s)]
lowered_in == [sub \in SearchQueries, s \in Codes \cup URLs |->
                  str_in(lowered[sub], lowered[s])]

\* search, were the query compared as given, not lowered
search_query_as_given(st, query) ==
    LET items == items_of(st.urls)
        matches == SelectSeq(items,
                       LAMBDA code : \/ str_in(query, lowered[code])
                                     \/ str_in(query, lowered[st.urls[code]]))
    IN  [st  |-> [st EXCEPT !.access_counts = DefaultTouchAll(@, matches)],
         ret |-> [i \in DOMAIN matches |->
                     [short_code   |-> matches[i],
                      original_url |-> st.urls[matches[i]],
                      access_count |-> DefaultGet(st.access_counts, matches[i])]]]

\* URLStorage.search
search(st, query) ==
    LET items == items_of(st.urls)
        matches == SelectSeq(items,
                       LAMBDA code : \/ lowered_in[query, code]
                                     \/ lowered_in[query, st.urls[code]])
    IN  [st  |-> [st EXCEPT !.access_counts = DefaultTouchAll(@, matches)],
         ret |-> [i \in DOMAIN matches |->
                     [short_code   |-> matches[i],
                      original_url |-> st.urls[matches[i]],
                      access_count |-> DefaultGet(st.access_counts, matches[i])]]]

\* sum(self._access_counts.values())
RECURSIVE sum_values(_)
sum_values(d) ==
    IF DOMAIN d = {} THEN 0
    ELSE LET c == CHOOSE k \in DOMAIN d : TRUE
         IN  d[c] + sum_values(DictDel(d, c))

\* sorted(self._access_counts.items(), key=lambda x: x[1], reverse=True):
\* the sort is stable, items of equal count stay in the order of iteration
sorted_by_access(d) ==
    LET items == items_of(d)
        before(i, j) == d[items[i]] > d[items[j]]
                            \/ (d[items[i]] = d[items[j]] /\ i < j)
        place(i) == 1 + Cardinality({j \in DOMAIN items : before(j, i)})
    IN  [p \in DOMAIN items |->
            LET i == CHOOSE k \in DOMAIN items : place(k) = p
            IN  [short_code |-> items[i], access_count |-> d[items[i]]]]

\* sorted_by_access[:5]
first_five(l) == SubSeq(l, 1, IF Len(l) < 5 THEN Len(l) ELSE 5)

\* sorted_by_access[-5:]
last_five(l) == SubSeq(l, IF Len(l) < 5 THEN 1 ELSE Len(l) - 4, Len(l))

\* get_stats, were total_urls to be the number of counters
get_stats_counts_counters(st) ==
    [total_urls     |-> Cardinality(DOMAIN st.access_counts),
     total_accesses |-> sum_values(st.access_counts),
     most_accessed  |-> first_five(sorted_by_access(st.access_counts)),
     least_accessed |-> last_five(sorted_by_access(st.access_counts))]

\* URLStorage.get_stats
get_stats(st) ==
    [total_urls     |-> Cardinality(DOMAIN st.urls),
     total_accesses |-> sum_values(st.access_counts),
     most_accessed  |-> first_five(sorted_by_access(st.access_counts)),
     least_accessed |-> last_five(sorted_by_access(st.access_counts))]

\* URLStorage.count
count(st) == Cardinality(DOMAIN st.urls)

\* clear, were it to leave the counters
clear_keeps_counters(st) ==
    [urls |-> EmptyDict, access_counts |-> st.access_counts, created_at |-> EmptyDict]

\* URLStorage.clear
clear(st) == [urls |-> EmptyDict, access_counts |-> EmptyDict, created_at |-> EmptyDict]

(***************************************************************************)
(* Request handlers (src/src/api/routes.py)                                *)
(***************************************************************************)
\* the collision loop, were it to retry once and not check the new candidate
collision_loop_once(st, original_url, short_code, attempt) ==
    IF short_code \in DOMAIN st.urls
    THEN [short_code |-> generate_short_code(original_url, attempt),
          attempt |-> attempt + 1]
    ELSE [short_code |-> short_code, attempt |-> attempt]

\* the collision loop of shorten_url: short_code is the current candidate and
\* attempt the number the next call of generate_short_code is given
RECURSIVE collision_loop(_, _, _, _)
collision_loop(st, original_url, short_code, attempt) ==
    IF exists(st, short_code)
    THEN collision_loop(st, original_url,
                        generate_short_code(original_url, attempt), attempt + 1)
    ELSE [short_code |-> short_code, attempt |-> attempt]

\* shorten_url, were the custom code saved without the exists check
shorten_url_unchecked(st, original_url, custom_code, now) ==
    IF custom_code # None
    THEN [st |-> save(st, custom_code, original_url, now),
          status_code |-> 201, short_code |-> custom_code,
          generate_calls |-> 0]
    ELSE LET g == collision_loop(st, original_url,
                                 generate_short_code(original_url, 0), 1)
         IN  [st |-> save(st, g.short_code, original_url, now),
              status_code |-> 201, short_code |-> g.short_code,
              generate_calls |-> g.attempt]

\* shorten_url, were a first candidate that exists answered 400 as an existing
\* custom code is
shorten_url_fails_on_collision(st, original_url, custom_code, now) ==
    LET short_code == IF custom_code # None THEN custom_code
                      ELSE generate_short_code(original_url, 0)
        generate_calls == IF custom_code # None THEN 0 ELSE 1
    IN  IF exists(st, short_code)
        THEN [st |-> st, status_code |-> 400, short_code |-> short_code,
              generate_calls |-> generate_calls]
        ELSE [st |-> save(st, short_code, original_url, now),
              status_code |-> 201, short_code |-> short_code,
              generate_calls |-> generate_calls]

\* shorten_url: the store after the request, the status code and the short
\* code of the response; generate_calls counts the calls of generate_short_code
shorten_url(st, original_url, custom_code, now) ==
    IF custom_code # None
    THEN IF exists(st, custom_code)
         THEN [st |-> st, status_code |-> 400, short_code |-> None,
               generate_calls |-> 0]
         ELSE [st |-> save(st, custom_code, original_url, now),
               status_code |-> 201, short_code |-> custom_code,
               generate_calls |-> 0]
    ELSE LET g == collision_loop(st, original_url,
                                 generate_short_code(original_url, 0), 1)
         IN  [st |-> save(st, g.short_code, original_url, now),
              status_code |-> 201, short_code |-> g.short_code,
              generate_calls |-> g.attempt]

\* redirect_url, were it to redirect without counting the access
redirect_url_without_count(st, short_code) ==
    LET original_url == get(st, short_code)
    IN  IF original_url = None
        THEN [st |-> st, status_code |-> 404, location |-> None]
        ELSE [st |-> st, status_code |-> 307, location |-> original_url]

\* redirect_url
redirect_url(st, short_code) ==
    LET original_url == get(st, short_code)
    IN  IF original_url = None
        THEN [st |-> st, status_code |-> 404, location |-> None]
        ELSE [st |-> increment_access(st, short_code),
              status_code |-> 307, location |-> original_url]

(***************************************************************************)
(* The state machine                                                       *)
(***************************************************************************)
\* the store becomes st
SetStore(st) ==
    /\ urls' = st.urls
    /\ access_counts' = st.access_counts
    /\ created_at' = st.created_at

\* the history variables after a step that leaves the store as st and
\* answered no shorten request with 201
NoCreate(st) ==
    /\ issued' = [c \in DOMAIN issued \cap DOMAIN st.urls |-> issued[c]]
    /\ purged' = purged \cup {c \in DOMAIN urls \ DOMAIN st.urls :
                                 DefaultGet(access_counts, c) > 0}

\* the counter of short_code may still be raised within the bound
BelowMaxAccess(short_code) == DefaultGet(access_counts, short_code) < MaxAccess

\* no handler is in the generation loop
Idle == [pc |-> "idle"]

\* no caller of increment_access has arrived
NoCalls ==
    [short_code |-> None, k |-> 0, base |-> 0, deleted |-> FALSE,
     pc |-> [i \in 1..MaxCallers |-> "idle"],
     count |-> [i \in 1..MaxCallers |-> 0]]

Init ==
    /\ urls = StoreInit.urls
    /\ access_counts = StoreInit.access_counts
    /\ created_at = StoreInit.created_at
    /\ last = [op |-> "init"]
    /\ issued = EmptyDict
    /\ purged = {}
    /\ loop = Idle
    /\ calls = NoCalls

\* POST /shorten
ShortenUrl(original_url, custom_code) ==
    \E now \in Times :
        LET r == shorten_url(Store, original_url, custom_code, now)
        IN  /\ r.generate_calls <= MaxAttempt + 1
            /\ SetStore(r.st)
            /\ last' = [op |-> "shorten_url",
                        status_code |-> r.status_code,
                        short_code |-> r.short_code,
                        generate_calls |-> r.generate_calls,
                        reused |-> r.short_code \in purged]
            /\ issued' = IF r.status_code = 201
                         THEN DictSet(issued, r.short_code,
                                      DefaultGet(issued, r.short_code) + 1)
                         ELSE issued
            /\ purged' = purged \ {r.short_code}
            /\ UNCHANGED <<loop, calls>>

\* GET /{short_code}
RedirectUrl(short_code) ==
    LET r == redirect_url(Store, short_code)
    IN  /\ BelowMaxAccess(short_code)
        /\ SetStore(r.st)
        /\ last' = [op |-> "redirect_url",
                    status_code |-> r.status_code, location |-> r.location]
        /\ NoCreate(r.st)
        /\ UNCHANGED <<loop, calls>>

\* url_storage.get(short_code)
Get(short_code) ==
    /\ last' = [op |-> "get",
                ret |-> get(Store, short_code)]
    /\ UNCHANGED <<urls, access_counts, created_at, issued, purged, loop, calls>>

\* url_storage.get_with_details(short_code)
GetWithDetails(short_code) ==
    LET r == get_with_details(Store, short_code)
    IN  /\ SetStore(r.st)
        /\ last' = [op |-> "get_with_details",
                    ret |-> r.ret]
        /\ NoCreate(r.st)
        /\ UNCHANGED <<loop, calls>>

\* url_storage.increment_access(short_code)
IncrementAccess(short_code) ==
    /\ BelowMaxAccess(short_code)
    /\ SetStore(increment_access(Store, short_code))
    /\ last' = [op |-> "increment_access"]
    /\ NoCreate(increment_access(Store, short_code))
    /\ UNCHANGED <<loop, calls>>

\* url_storage.update(short_code, new_url)
Update(short_code, new_url) ==
    LET r == update(Store, short_code, new_url)
    IN  /\ SetStore(r.st)
        /\ last' = [op |-> "update", ret |-> r.ret]
        /\ NoCreate(r.st)
        /\ UNCHANGED <<loop, calls>>

\* url_storage.exists(short_code)
Exists(short_code) ==
    /\ last' = [op |-> "exists",
                ret |-> exists(Store, short_code)]
    /\ UNCHANGED <<urls, access_counts, created_at, issued, purged, loop, calls>>

\* url_storage.delete(short_code)
Delete(short_code) ==
    LET r == delete(Store, short_code)
    IN  /\ SetStore(r.st)
        /\ last' = [op |-> "delete", ret |-> r.ret]
        /\ NoCreate(r.st)
        /\ UNCHANGED <<loop, calls>>

\* url_storage.bulk_delete(short_codes)
BulkDelete(short_codes) ==
    LET r == bulk_delete(Store, short_codes)
    IN  /\ SetStore(r.st)
        /\ last' = [op |-> "bulk_delete",
                    deleted |-> r.deleted, failed |-> r.failed]
        /\ NoCreate(r.st)
        /\ UNCHANGED <<loop, calls>>

\* url_storage.get_all_with_stats()
GetAllWithStats ==
    LET r == get_all_with_stats(Store)
    IN  /\ SetStore(r.st)
        /\ last' = [op |-> "get_all_with_stats", ret |-> r.ret]
        /\ NoCreate(r.st)
        /\ UNCHANGED <<loop, calls>>

\* url_storage.search(query)
Search(query) ==
    LET r == search(Store, query)
    IN  /\ SetStore(r.st)
        /\ last' = [op |-> "search", ret |-> r.ret]
        /\ NoCreate(r.st)
        /\ UNCHANGED <<loop, calls>>

\* url_storage.get_stats()
GetStats ==
    /\ last' = [op |-> "get_stats", ret |-> get_stats(Store)]
    /\ UNCHANGED <<urls, access_counts, created_at, issued, purged, loop, calls>>

\* url_storage.count()
Count ==
    /\ last' = [op |-> "count", ret |-> count(Store)]
    /\ UNCHANGED <<urls, access_counts, created_at, issued, purged, loop, calls>>

\* url_storage.clear()
Clear ==
    LET st == clear(Store)
    IN  /\ SetStore(st)
        /\ last' = [op |-> "clear"]
        /\ NoCreate(st)
        /\ UNCHANGED <<loop, calls>>

Next ==
    \/ \E r \in ShortenRequests : ShortenUrl(r[1], r[2])
    \/ \E c \in OpCodes : RedirectUrl(c)
    \/ \E c \in OpCodes : Get(c)
    \/ \E c \in OpCodes : GetWithDetails(c)
    \/ \E c \in OpCodes : IncrementAccess(c)
    \/ \E r \in UpdateRequests : Update(r[1], r[2])
    \/ \E c \in OpCodes : Exists(c)
    \/ \E c \in OpCodes : Delete(c)
    \/ \E l \in CodeLists : BulkDelete(l)
    \/ GetAllWithStats
    \/ \E q \in SearchQueries : Search(q)
    \/ GetStats
    \/ Count
    \/ Clear

Spec == Init /\ [][Next]_vars

(***************************************************************************)
(* The service as its clients drive it: the requests of routes.py and of   *)
(* /health only. No handler calls increment_access but redirect_url, and   *)
(* none calls clear.                                                       *)
(***************************************************************************)
ApiNext ==
    \/ \E r \in ShortenRequests : ShortenUrl(r[1], r[2])
    \/ \E c \in OpCodes : RedirectUrl(c)
    \/ \E c \in OpCodes : GetWithDetails(c)
    \/ GetAllWithStats
    \/ \E r \in UpdateRequests : Update(r[1], r[2])
    \/ \E c \in OpCodes : Delete(c)
    \/ \E l \in CodeLists : BulkDelete(l)
    \/ GetStats
    \/ \E q \in SearchQueries : Search(q)
    \/ Count

ApiSpec == Init /\ [][ApiNext]_vars

(***************************************************************************)
(* The generation loop of shorten_url, one evaluation of the while test    *)
(* per step (src/src/api/routes.py, lines 54-63). The handler does not     *)
(* await inside the loop: while it runs, no other handler runs.            *)
(***************************************************************************)
\* the candidates of either url up to attempt MaxAttempt
LoopCodes == {generate_short_code(u, k) : u \in URLs, k \in 0..MaxAttempt}

\* the while test, were the loop to give up retrying after attempt 1 and go on
\* to save
collision_loop_step_capped(st, original_url, short_code, attempt) ==
    IF exists(st, short_code) /\ attempt <= 1
    THEN [pc |-> "while", original_url |-> original_url,
          short_code |-> generate_short_code(original_url, attempt),
          attempt |-> attempt + 1]
    ELSE [pc |-> "save", original_url |-> original_url,
          short_code |-> short_code, attempt |-> attempt]

\* one evaluation of `while url_storage.exists(short_code)` and, when it is
\* true, of the loop body; the handler goes on to save when it is false
collision_loop_step(st, original_url, short_code, attempt) ==
    IF exists(st, short_code)
    THEN [pc |-> "while", original_url |-> original_url,
          short_code |-> generate_short_code(original_url, attempt),
          attempt |-> attempt + 1]
    ELSE [pc |-> "save", original_url |-> original_url,
          short_code |-> short_code, attempt |-> attempt]

\* POST /shorten without custom code reaches the loop: the first candidate
LoopEnter(original_url) ==
    /\ loop = Idle
    /\ loop' = [pc |-> "while", original_url |-> original_url,
                short_code |-> generate_short_code(original_url, 0),
                attempt |-> 1]
    /\ UNCHANGED <<urls, access_counts, created_at, last, issued, purged, calls>>

\* the while test and the loop body
LoopStep ==
    /\ loop.pc = "while"
    /\ LET n == collision_loop_step(Store, loop.original_url,
                                    loop.short_code, loop.attempt)
       IN  /\ n.pc = "while" => loop.attempt <= MaxAttempt
           /\ loop' = n
    /\ UNCHANGED <<urls, access_counts, created_at, last, issued, purged, calls>>

\* after the loop: save and the 201 response
LoopRespond ==
    /\ loop.pc = "save"
    /\ \E now \in Times :
           SetStore(save(Store, loop.short_code, loop.original_url, now))
    /\ last' = [op |-> "shorten_url", status_code |-> 201,
                short_code |-> loop.short_code,
                generate_calls |-> loop.attempt,
                reused |-> loop.short_code \in purged]
    /\ issued' = DictSet(issued, loop.short_code,
                         DefaultGet(issued, loop.short_code) + 1)
    /\ purged' = purged \ {loop.short_code}
    /\ loop' = Idle
    /\ UNCHANGED calls

\* DELETE /api/urls/{short_code}, between two shorten requests
LoopDelete(short_code) ==
    /\ loop = Idle
    /\ Delete(short_code)

LoopNext ==
    \/ \E u \in URLs : LoopEnter(u)
    \/ LoopStep
    \/ LoopRespond
    \/ \E c \in LoopCodes : LoopDelete(c)

\* a handler that is running goes on running
LoopSpec ==
    Init /\ [][LoopNext]_vars /\ WF_vars(LoopStep) /\ WF_vars(LoopRespond)

(***************************************************************************)
(* The store as an object of its own: any sequence of calls of its         *)
(* methods, save called directly, also on a code that is stored.           *)
(***************************************************************************)
\* url_storage.save(short_code, original_url)
Save(short_code, original_url) ==
    /\ \E now \in Times :
           SetStore(save(Store, short_code, original_url, now))
    /\ last' = [op |-> "save"]
    /\ issued' = issued
    /\ purged' = purged \ {short_code}
    /\ UNCHANGED <<loop, calls>>

StoreNext ==
    \/ \E r \in SaveRequests : Save(r[1], r[2])
    \/ \E c \in OpCodes : Get(c)
    \/ \E c \in OpCodes : GetWithDetails(c)
    \/ \E c \in OpCodes : IncrementAccess(c)
    \/ \E r \in UpdateRequests : Update(r[1], r[2])
    \/ \E c \in OpCodes : Exists(c)
    \/ \E c \in OpCodes : Delete(c)
    \/ \E l \in CodeLists : BulkDelete(l)
    \/ GetAllWithStats
    \/ \E q \in SearchQueries : Search(q)
    \/ GetStats
    \/ Count
    \/ Clear

StoreSpec == Init /\ [][StoreNext]_vars

(***************************************************************************)
(* Concurrent callers of increment_access, the call taken in its two       *)
(* steps: the test of line 36 with the read of the counter, and the write  *)
(* of the counter plus one (src/src/services/storage.py, lines 34-37). The *)
(* callers are handlers on the event loop, and none awaits between its     *)
(* first line and its return.                                              *)
(***************************************************************************)
\* caller i, were it a thread that may be preempted anywhere
runs_preempted(pc, i) == TRUE

\* the event loop lets caller i take a step only while no other caller is
\* between the two steps of its call (i = 0: a handler that is no caller)
runs_alone(pc, i) == \A j \in DOMAIN pc \ {i} : pc[j] # "read"

\* k callers arrive with increment_access(short_code), the code being stored
Arrive(short_code, k) ==
    /\ \A i \in 1..MaxCallers : calls.pc[i] \in {"idle", "returned"}
    /\ exists(Store, short_code)
    /\ DefaultGet(access_counts, short_code) + k <= MaxAccess
    /\ calls' = [short_code |-> short_code, k |-> k,
                 base |-> DefaultGet(access_counts, short_code),
                 deleted |-> FALSE,
                 pc |-> [i \in 1..MaxCallers |->
                            IF i <= k THEN "called" ELSE "idle"],
                 count |-> [i \in 1..MaxCallers |-> 0]]
    /\ UNCHANGED <<urls, access_counts, created_at, last, issued, purged, loop>>

\* `if short_code in self._urls:` and the read of
\* self._access_counts[short_code], which inserts a missing key with 0
IncrementAccessRead(i) ==
    /\ calls.pc[i] = "called"
    /\ runs_alone(calls.pc, i)
    /\ IF calls.short_code \in DOMAIN urls
       THEN /\ access_counts' = DefaultTouch(access_counts, calls.short_code)
            /\ calls' = [calls EXCEPT
                            !.pc[i] = "read",
                            !.count[i] = DefaultGet(access_counts, calls.short_code)]
            /\ last' = last
       ELSE /\ access_counts' = access_counts
            /\ calls' = [calls EXCEPT !.pc[i] = "returned"]
            /\ last' = [op |-> "increment_access"]
    /\ UNCHANGED <<urls, created_at, issued, purged, loop>>

\* the write of self._access_counts[short_code] = count + 1, and the return
IncrementAccessWrite(i) ==
    /\ calls.pc[i] = "read"
    /\ runs_alone(calls.pc, i)
    /\ access_counts' = DictSet(access_counts, calls.short_code, calls.count[i] + 1)
    /\ calls' = [calls EXCEPT !.pc[i] = "returned"]
    /\ last' = [op |-> "increment_access"]
    /\ UNCHANGED <<urls, created_at, issued, purged, loop>>

\* POST /shorten without custom code, handled between the steps of the
\* callers
CallsShortenUrl(original_url) ==
    /\ runs_alone(calls.pc, 0)
    /\ ShortenUrl(original_url, None)

\* url_storage.delete(short_code), handled between the steps of the callers
CallsDelete(short_code) ==
    /\ runs_alone(calls.pc, 0)
    /\ LET r == delete(Store, short_code)
       IN  /\ SetStore(r.st)
           /\ last' = [op |-> "delete", ret |-> r.ret]
           /\ NoCreate(r.st)
           /\ calls' = [calls EXCEPT
                           !.deleted = @ \/ (r.ret /\ short_code = calls.short_code)]
    /\ UNCHANGED loop

CallsNext ==
    \/ \E r \in {q \in ShortenRequests : q[2] = None} : CallsShortenUrl(r[1])
    \/ \E c \in Codes : \E k \in 1..MaxCallers : Arrive(c, k)
    \/ \E i \in 1..MaxCallers : IncrementAccessRead(i)
    \/ \E i \in 1..MaxCallers : IncrementAccessWrite(i)
    \/ \E c \in Codes : CallsDelete(c)

CallsSpec == Init /\ [][CallsNext]_vars

(***************************************************************************)
(* What a caller observes of the store                                     *)
(***************************************************************************)
\* the entry of short_code as get_with_details reports it
Entry(st, short_code) ==
    [original_url |-> st.urls[short_code],
     access_count |-> DefaultGet(st.access_counts, short_code),
     created_at   |-> DictGet(st.created_at, short_code)]

\* every entry of the store before the step is in it, unchanged, after the step
EntriesKept(keep) ==
    \A d \in keep :
        /\ d \in DOMAIN urls'
        /\ Entry(Store', d) = Entry(Store, d)

\* the three dicts are what they were
StoreUnchanged == UNCHANGED <<urls, access_counts, created_at>>

(***************************************************************************)
(* C1: of the shorten requests that target the same short code while it    *)
(* stays in the store, at most one is answered 201 with that code, however *)
(* the requests are ordered: the others find exists(code) true and move on *)
(* to another candidate or are answered 400.                               *)
(***************************************************************************)
C1_AtMostOneWinner ==
    /\ \A c \in DOMAIN issued : issued[c] <= 1
    /\ (last.op = "shorten_url" /\ last.status_code = 201)
           => last.short_code \in DOMAIN urls /\ issued[last.short_code] = 1

\* a second request for https://a.io/ lost the first candidate, held by the
\* first request, and was answered with the next one
C1_Witness ==
    /\ last.op = "shorten_url"
    /\ last.status_code = 201
    /\ last.generate_calls = 2
    /\ "753dc6" \in DOMAIN urls
    /\ urls["753dc6"] = "https://a.io/"
    /\ issued["753dc6"] = 1

(***************************************************************************)
(* C2: a shorten request answered 201 inserts under a code that was absent *)
(* just before: count() grows by exactly 1, get(code) is the submitted     *)
(* url, and every entry that existed keeps its url, access count and       *)
(* creation time.                                                          *)
(***************************************************************************)
C2_ShortenInsertsFresh ==
    [][\A r \in ShortenRequests :
          (last'.op = "shorten_url" /\ last'.status_code = 201
             /\ ShortenUrl(r[1], r[2])) =>
              /\ ~exists(Store, last'.short_code)
              /\ count(Store') = count(Store) + 1
              /\ get(Store', last'.short_code) = r[1]
              /\ EntriesKept(DOMAIN urls)]_vars

\* a second entry was created beside an entry that had been accessed
C2_Witness ==
    /\ last.op = "shorten_url"
    /\ last.status_code = 201
    /\ count(Store) = 2
    /\ \E c \in DOMAIN urls \ {last.short_code} :
           DefaultGet(access_counts, c) > 0

(***************************************************************************)
(* C3: a shorten request whose custom code exists is answered 400, calls   *)
(* generate_short_code not once, and leaves the three dicts as they were.  *)
(***************************************************************************)
C3_CustomConflict ==
    [][\A r \in ShortenRequests :
          (last'.op = "shorten_url" /\ r[2] # None /\ exists(Store, r[2])
             /\ ShortenUrl(r[1], r[2])) =>
              /\ last'.status_code = 400
              /\ last'.generate_calls = 0
              /\ StoreUnchanged]_vars

\* a custom code was refused while its entry, already accessed, is in the store
C3_Witness ==
    /\ last.op = "shorten_url"
    /\ last.status_code = 400
    /\ "753dc6" \in DOMAIN urls
    /\ DefaultGet(access_counts, "753dc6") > 0

(***************************************************************************)
(* C4: right after a shorten request created an entry, its access count is *)
(* 0, whatever happened before, also when the same code had been created,  *)
(* accessed and removed (by delete, bulk_delete or clear).                 *)
(***************************************************************************)
C4_CreatedWithZeroCount ==
    [][\A r \in ShortenRequests :
          (last'.op = "shorten_url" /\ last'.status_code = 201
             /\ ShortenUrl(r[1], r[2])) =>
              Entry(Store', last'.short_code).access_count = 0]_vars

\* a code was created again after its earlier entry was accessed and removed
C4_Witness ==
    /\ last.op = "shorten_url"
    /\ last.status_code = 201
    /\ last.reused
    /\ Entry(Store, last.short_code).access_count = 0

(***************************************************************************)
(* C5: increment_access on a stored code adds exactly 1 to its access      *)
(* count, so N calls add N, and leaves the other counts alone; get and     *)
(* get_with_details change no access count.                                *)
(***************************************************************************)
C5_IncrementAddsOne ==
    [][/\ last'.op = "increment_access" =>
            \A c \in OpCodes :
                (exists(Store, c) /\ IncrementAccess(c)) =>
                    /\ DOMAIN urls' = DOMAIN urls
                    /\ Entry(Store', c).access_count
                           = Entry(Store, c).access_count + 1
                    /\ \A d \in DOMAIN urls \ {c} :
                           Entry(Store', d).access_count
                              = Entry(Store, d).access_count
       /\ \A c \in OpCodes :
              \/ last'.op = "get" /\ Get(c)
              \/ last'.op = "get_with_details" /\ GetWithDetails(c)
              => /\ DOMAIN urls' = DOMAIN urls
                 /\ \A d \in DOMAIN urls :
                        Entry(Store', d).access_count
                           = Entry(Store, d).access_count]_vars

\* increment_access has brought a count to 2
C5_Witness ==
    /\ last.op = "increment_access"
    /\ \E c \in DOMAIN access_counts : access_counts[c] = 2

(***************************************************************************)
(* C6 (invariant I2): every access count is a non-negative integer, and no *)
(* step lowers the access count of an entry that is in the store before    *)
(* and after the step.                                                     *)
(***************************************************************************)
C6_CountMonotonic ==
    /\ [](\A c \in DOMAIN access_counts : access_counts[c] \in Nat)
    /\ [][\A c \in DOMAIN urls \cap DOMAIN urls' :
             Entry(Store', c).access_count >= Entry(Store, c).access_count]_vars

\* an entry that has been accessed went through an update
C6_Witness ==
    /\ last.op = "update"
    /\ last.ret = TRUE
    /\ \E c \in DOMAIN urls : DefaultGet(access_counts, c) = MaxAccess

(***************************************************************************)
(* C7: update on a stored code returns True and replaces the url of that   *)
(* entry; the access counts, the creation times and the other urls are     *)
(* what they were.                                                         *)
(***************************************************************************)
C7_UpdateChangesOnlyUrl ==
    [][\A r \in UpdateRequests :
          (last'.op = "update" /\ exists(Store, r[1]) /\ Update(r[1], r[2])) =>
              /\ last'.ret = TRUE
              /\ DOMAIN urls' = DOMAIN urls
              /\ urls'[r[1]] = r[2]
              /\ \A d \in DOMAIN urls \ {r[1]} : urls'[d] = urls[d]
              /\ access_counts' = access_counts
              /\ created_at' = created_at]_vars

\* an accessed entry got the other url, beside a second entry
C7_Witness ==
    /\ last.op = "update"
    /\ last.ret = TRUE
    /\ count(Store) = 2
    /\ urls["753dc6"] = "https://b.io/"
    /\ DefaultGet(access_counts, "753dc6") > 0
    /\ created_at["753dc6"] # created_at["4fb691"]

(***************************************************************************)
(* C8 (invariant I4): after delete returned True the code is absent for    *)
(* exists, get and get_with_details, count() is 1 lower, no url, counter   *)
(* or creation time is left for the code, and the other entries are what   *)
(* they were.                                                              *)
(***************************************************************************)
C8_DeleteIsTotal ==
    [][\A c \in OpCodes :
          (last'.op = "delete" /\ last'.ret = TRUE /\ Delete(c)) =>
              /\ ~exists(Store', c)
              /\ get(Store', c) = None
              /\ get_with_details(Store', c).ret = {}
              /\ count(Store') = count(Store) - 1
              /\ c \notin DOMAIN urls'
              /\ c \notin DOMAIN access_counts'
              /\ c \notin DOMAIN created_at'
              /\ EntriesKept(DOMAIN urls \ {c})]_vars

\* delete removed one of two entries
C8_Witness ==
    /\ last.op = "delete"
    /\ last.ret = TRUE
    /\ count(Store) = 1
    /\ purged # {}

(***************************************************************************)
(* C9: on a code that is not stored, delete and update return False, get   *)
(* returns None, get_with_details returns None, increment_access returns   *)
(* silently, and in each case the three dicts are what they were: no       *)
(* entry and no counter appears for the code.                              *)
(***************************************************************************)
C9_AbsentCodeNoEffect ==
    [][\A c \in OpCodes :
          ~exists(Store, c) =>
              /\ (last'.op = "delete" /\ Delete(c)) =>
                     last'.ret = FALSE /\ StoreUnchanged
              /\ (last'.op = "update" /\ \E u \in URLs : Update(c, u)) =>
                     last'.ret = FALSE /\ StoreUnchanged
              /\ (last'.op = "get" /\ Get(c)) =>
                     last'.ret = None /\ StoreUnchanged
              /\ (last'.op = "get_with_details" /\ GetWithDetails(c)) =>
                     last'.ret = {} /\ StoreUnchanged
              /\ (last'.op = "increment_access" /\ IncrementAccess(c)) =>
                     StoreUnchanged]_vars

\* delete missed its code in a store that holds an entry
C9_Witness ==
    /\ last.op = "delete"
    /\ last.ret = FALSE
    /\ count(Store) >= 1

(***************************************************************************)
(* C10: the outcomes of bulk_delete                                        *)
(***************************************************************************)
\* the codes of a list
Range(l) == {l[i] : i \in 1..Len(l)}

\* how often a code occurs in a list
Occurrences(l, c) == Cardinality({i \in 1..Len(l) : l[i] = c})

\* C10 as claimed: deleted + len(failed) = len(short_codes), and every code
\* of the list is in exactly one of the two outcomes: deleted by the call, or
\* among the failed codes
C10_AsClaimed ==
    [][\A l \in CodeLists :
          (last'.op = "bulk_delete" /\ BulkDelete(l)) =>
              LET deletedCodes == Range(l) \cap (DOMAIN urls \ DOMAIN urls')
                  failedCodes  == Range(last'.failed)
              IN  /\ last'.deleted + Len(last'.failed) = Len(l)
                  /\ \A c \in Range(l) :
                         (c \in deletedCodes) # (c \in failedCodes)]_vars

\* C10 as amended: deleted + len(failed) = len(short_codes); deleted counts
\* the codes of the list that were stored; every code of the list is deleted
\* or failed, and it is both exactly when it was stored and occurs more than
\* once in the list
C10_BulkDeleteOutcomes ==
    [][\A l \in CodeLists :
          (last'.op = "bulk_delete" /\ BulkDelete(l)) =>
              LET deletedCodes == Range(l) \cap (DOMAIN urls \ DOMAIN urls')
                  failedCodes  == Range(last'.failed)
              IN  /\ last'.deleted + Len(last'.failed) = Len(l)
                  /\ last'.deleted = Cardinality(Range(l) \cap DOMAIN urls)
                  /\ \A c \in Range(l) :
                         /\ c \in deletedCodes \/ c \in failedCodes
                         /\ (c \in deletedCodes /\ c \in failedCodes)
                                <=> (c \in DOMAIN urls /\ Occurrences(l, c) > 1)]_vars

\* bulk_delete of a list that names a stored code twice: one deleted, and the
\* same code failed
C10_Witness ==
    /\ last.op = "bulk_delete"
    /\ last.deleted = 1
    /\ last.failed = <<"753dc6">>
    /\ "753dc6" \notin DOMAIN urls

(***************************************************************************)
(* C11: bulk_delete attempts every position of the list once, in order,    *)
(* whatever the earlier outcomes: failed is the subsequence of the list at *)
(* the positions whose code was not stored at its turn (never stored, or   *)
(* deleted at an earlier position), deleted counts the other positions;    *)
(* afterwards no code of the list is stored and every entry whose code is  *)
(* not in the list is unchanged.                                           *)
(***************************************************************************)
\* the positions of l whose code is not stored when its turn comes
NotFoundAtTurn(l) ==
    {i \in 1..Len(l) : l[i] \notin DOMAIN urls \/ \E j \in 1..(i - 1) : l[j] = l[i]}

\* the subsequence of l at the positions I
SubsequenceAt(l, I) ==
    LET F[i \in 0..Len(l)] ==
            IF i = 0 THEN <<>>
            ELSE IF i \in I THEN Append(F[i - 1], l[i]) ELSE F[i - 1]
    IN  F[Len(l)]

C11_BulkDeleteAttemptsAll ==
    [][\A l \in CodeLists :
          (last'.op = "bulk_delete" /\ BulkDelete(l)) =>
              /\ last'.failed = SubsequenceAt(l, NotFoundAtTurn(l))
              /\ last'.deleted = Len(l) - Cardinality(NotFoundAtTurn(l))
              /\ DOMAIN urls' = DOMAIN urls \ Range(l)
              /\ \A c \in Range(l) : ~exists(Store', c)
              /\ EntriesKept(DOMAIN urls \ Range(l))]_vars

\* a bulk_delete whose first code was not found and that went on to delete a
\* later code of the list, while an entry outside the list stayed
C11_Witness ==
    /\ last.op = "bulk_delete"
    /\ last.failed = <<"zzzzzz">>
    /\ last.deleted = 1
    /\ "4fb691" \notin DOMAIN urls
    /\ "753dc6" \in DOMAIN urls

(***************************************************************************)
(* C12: in every reachable state get_stats reports total_urls = count()    *)
(* and total_accesses = the sum of the access counts of the entries that   *)
(* are in the store; an entry that was deleted contributes nothing.        *)
(***************************************************************************)
\* the sum of the access counts of the entries of a set of codes
RECURSIVE AccessSum(_)
AccessSum(codes) ==
    IF codes = {} THEN 0
    ELSE LET c == CHOOSE k \in codes : TRUE
         IN  Entry(Store, c).access_count + AccessSum(codes \ {c})

C12_StatsTotals ==
    /\ get_stats(Store).total_urls = count(Store)
    /\ get_stats(Store).total_accesses = AccessSum(DOMAIN urls)
    /\ last.op = "get_stats" => last.ret = get_stats(Store)

\* get_stats answered 1 entry and 2 accesses after another entry, which had
\* been accessed, was deleted
C12_Witness ==
    /\ last.op = "get_stats"
    /\ last.ret.total_urls = 1
    /\ last.ret.total_accesses = 2
    /\ purged # {}

(***************************************************************************)
(* C13: get_stats sorts all entries of the store by access count,          *)
(* descending; most_accessed is the first 5 and least_accessed the last 5  *)
(* of that sequence, so each of the two lists has min(5, count()) elements *)
(* and, with fewer than 5 entries, names every entry of the store, also    *)
(* one that was created and never accessed or read.                        *)
(***************************************************************************)
\* the short codes a list of get_stats names
ListedCodes(l) == {l[i].short_code : i \in DOMAIN l}

\* the list is in descending order of access count and gives every code its
\* access count in the store
SortedEntries(l) ==
    /\ \A i \in DOMAIN l :
           /\ l[i].short_code \in DOMAIN urls
           /\ l[i].access_count = Entry(Store, l[i].short_code).access_count
    /\ \A i, j \in DOMAIN l : i < j => l[i].access_count >= l[j].access_count

C13_StatsListsAllEntries ==
    LET stats == get_stats(Store)
        n     == IF count(Store) < 5 THEN count(Store) ELSE 5
    IN  /\ Len(stats.most_accessed) = n
        /\ Len(stats.least_accessed) = n
        /\ SortedEntries(stats.most_accessed)
        /\ SortedEntries(stats.least_accessed)
        /\ count(Store) < 5 =>
               /\ ListedCodes(stats.most_accessed) = DOMAIN urls
               /\ ListedCodes(stats.least_accessed) = DOMAIN urls

(***************************************************************************)
(* C14: get, get_with_details, exists, count, get_all_with_stats, search   *)
(* and get_stats have no side effect: what any operation issued after the  *)
(* read returns, get_stats and its two lists in particular, is what it     *)
(* would have returned had the read not been performed.                    *)
(***************************************************************************)
\* the operations C14 names as reads
Reads == {"get", "get_with_details", "exists", "count",
          "get_all_with_stats", "search", "get_stats"}

C14_ReadsHaveNoEffect ==
    [][last'.op \in Reads =>
          /\ get_stats(Store') = get_stats(Store)
          /\ DOMAIN urls' = DOMAIN urls
          /\ \A c \in DOMAIN urls : Entry(Store', c) = Entry(Store, c)]_vars

(***************************************************************************)
(* C15: a shorten request without custom code is answered 201 with         *)
(* generate_short_code(url, k) for the smallest k >= 0 whose candidate is   *)
(* not in the store (k = 0 hashes the url alone, k >= 1 the url with k      *)
(* appended); a collision is never answered with an error, so shortening a *)
(* url whose first candidate is held creates a second entry under another  *)
(* code.                                                                   *)
(***************************************************************************)
C15_SmallestFreeCandidate ==
    [][\A r \in ShortenRequests :
          (last'.op = "shorten_url" /\ r[2] = None /\ ShortenUrl(r[1], r[2])) =>
              /\ last'.status_code = 201
              /\ \E k \in 0..MaxAttempt :
                     /\ last'.short_code = generate_short_code(r[1], k)
                     /\ last'.generate_calls = k + 1
                     /\ ~exists(Store, generate_short_code(r[1], k))
                     /\ \A j \in 0..(k - 1) :
                            exists(Store, generate_short_code(r[1], j))
              /\ get(Store', last'.short_code) = r[1]
              /\ exists(Store, generate_short_code(r[1], 0)) =>
                     /\ last'.short_code # generate_short_code(r[1], 0)
                     /\ exists(Store', generate_short_code(r[1], 0))
                     /\ count(Store') = count(Store) + 1]_vars

\* https://a.io/ was shortened twice: the second request got the candidate of
\* attempt 1, and both entries hold the url
C15_Witness ==
    /\ last.op = "shorten_url"
    /\ last.status_code = 201
    /\ last.generate_calls = 2
    /\ last.short_code = generate_short_code("https://a.io/", 1)
    /\ get(Store, generate_short_code("https://a.io/", 0)) = "https://a.io/"
    /\ get(Store, generate_short_code("https://a.io/", 1)) = "https://a.io/"

(***************************************************************************)
(* C16: the generation loop ends exactly when a candidate is absent from   *)
(* the store. While the current candidate is stored the handler stays in   *)
(* the loop and takes the candidate of the next attempt, without response  *)
(* and without error; it leaves the loop only with an absent candidate,    *)
(* which it saves and answers 201; and once a candidate among those still  *)
(* to come is absent, the loop ends. So when every candidate it produces   *)
(* is stored, the request does not complete.                               *)
(***************************************************************************)
\* the attempts the loop is still to test: the current candidate is that of
\* attempt loop.attempt - 1
AttemptsAhead == (loop.attempt - 1)..MaxAttempt

Matching(q) ==
    {c \in DOMAIN urls : \/ str_in(lowered[q], lowered[c])
                         \/ str_in(lowered[q], lowered[urls[c]])}

C17_SearchReturnsMatches ==
    [][\A q \in SearchQueries :
          (last'.op = "search" /\ Search(q)) =>
              /\ ListedCodes(last'.ret) = Matching(q)
              /\ Len(last'.ret) = Cardinality(Matching(q))
              /\ \A i \in DOMAIN last'.ret :
                     LET c == last'.ret[i].short_code
                     IN  /\ last'.ret[i].original_url = urls[c]
                         /\ last'.ret[i].access_count = Entry(Store, c).access_count
                         /\ last'.ret[i].access_count = Entry(Store', c).access_count
              /\ q = "" => ListedCodes(last'.ret) = DOMAIN urls
              /\ q = "A.IO" =>
                     ListedCodes(last'.ret) = {c \in DOMAIN urls : urls[c] = "https://a.io/"}
              /\ q = "753" => ListedCodes(last'.ret) = DOMAIN urls \cap {"753dc6"}]_vars

\* of two entries, a search returned the one whose url is https://a.io/, with
\* its access count 1, and not the one of https://b.io/: the query was A.IO
C17_Witness ==
    /\ last.op = "search"
    /\ last.ret = <<[short_code |-> "4fb691", original_url |-> "https://a.io/",
                     access_count |-> 1]>>
    /\ get(Store, "753dc6") = "https://b.io/"

(***************************************************************************)
(* C18: whatever the order in which concurrent requests are handled, no    *)
(* caller sees a create or a delete applied in part: a code that exists    *)
(* and get report present has its creation time in get_with_details and in *)
(* get_all_with_stats, and a code reported absent has no access count and  *)
(* no creation time left in the store.                                     *)
(***************************************************************************)
C18_NoPartialCreateOrDelete ==
    \A c \in OpCodes :
        IF exists(Store, c)
        THEN /\ get(Store, c) # None
             /\ \A d \in get_with_details(Store, c).ret : d.created_at \in Times
             /\ get_with_details(Store, c).ret # {}
             /\ \E i \in DOMAIN get_all_with_stats(Store).ret :
                    /\ get_all_with_stats(Store).ret[i].short_code = c
                    /\ get_all_with_stats(Store).ret[i].created_at \in Times
        ELSE /\ get(Store, c) = None
             /\ get_with_details(Store, c).ret = {}
             /\ c \notin DOMAIN access_counts
             /\ c \notin DOMAIN created_at

\* a code whose accessed entry was deleted has been created again beside
\* another entry
C18_Witness ==
    /\ last.op = "shorten_url"
    /\ last.status_code = 201
    /\ last.reused
    /\ count(Store) = 2

C20_RedirectCountsAccesses ==
    [][/\ \A c \in OpCodes :
             (last'.op = "redirect_url" /\ RedirectUrl(c)) =>
                 IF exists(Store, c)
                 THEN /\ last'.status_code = 307
                      /\ last'.location = get(Store, c)
                      /\ Entry(Store', c) =
                             [Entry(Store, c) EXCEPT !.access_count = @ + 1]
                      /\ DOMAIN urls' = DOMAIN urls
                      /\ EntriesKept(DOMAIN urls \ {c})
                 ELSE /\ last'.status_code = 404
                      /\ StoreUnchanged
       /\ last'.op # "redirect_url" =>
              \A c \in DOMAIN urls \cap DOMAIN urls' :
                  Entry(Store', c).access_count = Entry(Store, c).access_count
       /\ \A c \in DOMAIN urls' \ DOMAIN urls :
              Entry(Store', c).access_count = 0]_vars

\* a redirect was answered with the url of an entry whose access count is now
\* 2, in a store of two entries
C20_Witness ==
    /\ last.op = "redirect_url"
    /\ last.status_code = 307
    /\ \E c \in DOMAIN issued :
           /\ get(Store, c) = last.location
           /\ Entry(Store, c).access_count = 2
    /\ count(Store) = 2

(***************************************************************************)
(* C21: when k callers run increment_access concurrently on a stored code  *)
(* that is not deleted meanwhile, no update is lost, in whatever order     *)
(* their steps are taken: the access count is the count at their arrival   *)
(* plus the number of callers that have returned, and so exactly k higher  *)
(* once all have returned.                                                 *)
(***************************************************************************)
\* the callers that have returned
Returned == {i \in 1..calls.k : calls.pc[i] = "returned"}

C21_NoLostUpdate ==
    (calls.k > 0 /\ ~calls.deleted) =>
        /\ exists(Store, calls.short_code)
        /\ Entry(Store, calls.short_code).access_count
               = calls.base + Cardinality(Returned)
        /\ Cardinality(Returned) = calls.k =>
               Entry(Store, calls.short_code).access_count = calls.base + calls.k

\* two callers have returned from increment_access on one of two stored
\* codes: its count went from 0 to 2
C21_Witness ==
    /\ calls.k = 2
    /\ ~calls.deleted
    /\ Returned = {1, 2}
    /\ calls.base = 0
    /\ Entry(Store, calls.short_code).access_count = 2
    /\ count(Store) = 2

(***************************************************************************)
(* C22: after any sequence of completed calls of the store (save, get,     *)
(* get_with_details, increment_access, update, delete, bulk_delete,        *)
(* get_all_with_stats, search, get_stats, clear) the keys of _created_at   *)
(* are the keys of _urls, and the keys of _access_counts are among the     *)
(* keys of _urls: no counter and no creation time is stored for a code     *)
(* that has no url.                                                        *)
(***************************************************************************)
C22_KeySets ==
    /\ DOMAIN created_at = DOMAIN urls
    /\ DOMAIN access_counts \subseteq DOMAIN urls

\* a bulk_delete removed an accessed entry with its counter and its creation
\* time; the entry left has a creation time and no counter
C22_Witness ==
    /\ last.op = "bulk_delete"
    /\ last.deleted >= 1
    /\ purged # {}
    /\ count(Store) = 1
    /\ DOMAIN access_counts = {}

(***************************************************************************)
(* C23: save on a code that is stored raises no error and keeps count();   *)
(* the entry gets the url of the call and the creation time of the call,   *)
(* whatever they were, and its access count stays what it was: it is not   *)
(* reset to 0. The other entries stay as they were.                        *)
(***************************************************************************)
C23_SaveOverwrites ==
    /\ [](\A r \in SaveRequests : \A now \in Times :
             exists(Store, r[1]) =>
                 ENABLED (Save(r[1], r[2]) /\ created_at'[r[1]] = now))
    /\ [][\A r \in SaveRequests :
             (last'.op = "save" /\ exists(Store, r[1]) /\ Save(r[1], r[2])) =>
                 /\ count(Store') = count(Store)
                 /\ get(Store', r[1]) = r[2]
                 /\ created_at'[r[1]] \in Times
                 /\ Entry(Store', r[1]).access_count
                        = Entry(Store, r[1]).access_count
                 /\ access_counts' = access_counts
                 /\ EntriesKept(DOMAIN urls \ {r[1]})]_vars

\* save was called on the only entry of the store, which had been accessed
\* twice: it holds https://b.io/ now and its count is still 2
C23_Witness ==
    /\ last.op = "save"
    /\ count(Store) = 1
    /\ get(Store, "753dc6") = "https://b.io/"
    /\ Entry(Store, "753dc6").access_count = 2

====
